---- MODULE Spec2Model ----
(***************************************************************************)
(* Workflow orchestration of Merlin: the persisted Workflow/WorkflowStep   *)
(* records (db), the SQLAlchemy session of the request in progress (mem),  *)
(* and the handlers of api/v1/workflows.py driving WorkflowRepository and  *)
(* WorkflowOrchestrator.  Requests are served one at a time in Spec; a     *)
(* request that runs the orchestrator is split at its awaits on the step   *)
(* execution, so that a step in flight is a state of the model.            *)
(*                                                                         *)
(* Python list positions are 0-based, TLA+ sequences 1-based: the step at  *)
(* Python position p is steps[p + 1].                                      *)
(***************************************************************************)
EXTENDS Integers, Sequences, FiniteSets, TLC

\* ---------------------------------------------------------------- bounds
MaxSteps == 2          \* steps added to the workflow
MaxIdx == 1            \* step_index values offered to add-step: 0..MaxIdx

\* ------------------------------------------------------------ enumerations
NULL == "<None>"       \* Python None

PENDING == "pending"
RUNNING == "running"
PAUSED == "paused"
COMPLETED == "completed"
FAILED == "failed"
CANCELLED == "cancelled"
WorkflowStatus == {PENDING, RUNNING, PAUSED, COMPLETED, FAILED, CANCELLED}

WAITING_APPROVAL == "waiting_approval"
APPROVED == "approved"
REJECTED == "rejected"
SKIPPED == "skipped"
StepStatus == {PENDING, RUNNING, WAITING_APPROVAL, APPROVED, REJECTED,
               COMPLETED, FAILED, SKIPPED}

\* texts the collaborators can hand back; "" is the empty string
Outputs == {"", "text"}
ErrorTexts == {"", "boom"}
Feedbacks == {NULL, "redo"}
StatusMessages == {NULL}
StepNames == <<"Plan", "Draft", "Verify", "Humanize">>

\* Python truthiness of an optional string
Truthy(s) == s /= NULL /\ s /= ""

\* --------------------------------------------------------------- records
NoWorkflow == [exists |-> FALSE]
NoSession == [open |-> FALSE]
NoRet == [kind |-> NULL]
NoChain == [active |-> FALSE]
NoClean == [stage |-> NULL]
NoLimiter == [provider |-> NULL]
\* no second request: its session, position and result as for an idle
\* request; the first of the two clients is being served; no approval marked
NoRival == [mem |-> NoSession, pc |-> "idle", ret |-> NoRet,
            serving |-> 1, marked |-> 0, rival_marked |-> 0]

VARIABLES
    db,     \* the committed Workflow row with its steps, or NoWorkflow
    mem,    \* the objects of the open session (uncommitted view), or NoSession
    pc,     \* "idle" | "approving" | "loop" | "executing": where the
            \* request in progress is
    ret,    \* what the last orchestrator request returned (NoRet while it
            \* runs and after a CRUD request)
    chain,  \* the apply_techniques call in progress, or NoChain
    clean,  \* a text under _clean_response_for_chaining, or NoClean
    limiter, \* a RateLimiter instance with its clock, or NoLimiter
    rival   \* the request of a second client, suspended at an await while
            \* the one of mem, pc and ret runs: its own mem, pc and ret,
            \* which client is being served, and the list positions the
            \* approve_step calls in progress have marked (0: none)

vars == <<db, mem, pc, ret, chain, clean, limiter, rival>>

\* the state of OptiLLMService and RateLimiter, which no workflow request of
\* this model touches (the step's work is the outcome handed to FinishStep),
\* and the suspended request, which the running one does not touch
service == <<chain, clean, limiter, rival>>

\* ----------------------------------------------- WorkflowRepository (pure)
NewWorkflow ==
    [exists |-> TRUE, status |-> PENDING, current_step_index |-> 0,
     steps |-> <<>>, result |-> NULL, error_message |-> NULL]

\* add-step requests name the step after its step_index
NewStep(step_index, requires_approval) ==
    [step_index |-> step_index, name |-> StepNames[step_index + 1],
     requires_approval |-> requires_approval, status |-> PENDING,
     output |-> NULL, user_feedback |-> NULL]

\* relationship(order_by="WorkflowStep.step_index"); equal step_index values
\* come back in primary-key order
InsertStep(steps, s) ==
    LET k == Cardinality({i \in 1..Len(steps) : steps[i].step_index <= s.step_index})
    IN  SubSeq(steps, 1, k) \o <<s>> \o SubSeq(steps, k + 1, Len(steps))

update_status(wf, status, error_message) ==
    [wf EXCEPT !.status = status,
               !.error_message = IF Truthy(error_message) THEN error_message ELSE @]

advance_step(wf) ==
    LET i == wf.current_step_index + 1
    IN  [wf EXCEPT !.current_step_index = i,
                   !.status = IF i >= Len(wf.steps) THEN COMPLETED ELSE @]

\* session.commit(): the session writes the attributes it changed since it
\* loaded them, of the workflow row and of each step row, and every other
\* attribute keeps what is stored (another session may have written it).  A
\* step status RUNNING was set by this session (line 199) and is written.
\* Steps are told apart by their list position: with a list of another
\* length stored, the steps are written as the session holds them
commit(stored, loaded, session) ==
    LET Written(kept, was, now) == IF now = was THEN kept ELSE now
        SameSteps == /\ Len(stored.steps) = Len(session.steps)
                     /\ Len(loaded.steps) = Len(session.steps)
        Step(k) ==
            [session.steps[k] EXCEPT
                !.status = IF @ = RUNNING THEN @
                           ELSE Written(stored.steps[k].status,
                                        loaded.steps[k].status, @),
                !.output = Written(stored.steps[k].output,
                                   loaded.steps[k].output, @),
                !.user_feedback = Written(stored.steps[k].user_feedback,
                                          loaded.steps[k].user_feedback, @)]
    IN  [session EXCEPT
            !.status = Written(stored.status, loaded.status, @),
            !.current_step_index =
                Written(stored.current_step_index, loaded.current_step_index, @),
            !.error_message = Written(stored.error_message, loaded.error_message, @),
            !.result = Written(stored.result, loaded.result, @),
            !.steps = IF SameSteps THEN [k \in 1..Len(session.steps) |-> Step(k)]
                      ELSE @]

\* session.refresh(workflow): the attributes of the row are read again
refresh(session, stored) ==
    [session EXCEPT !.status = stored.status,
                    !.current_step_index = stored.current_step_index,
                    !.error_message = stored.error_message,
                    !.result = stored.result]

\* --------------------------------------------- WorkflowOrchestrator (pure)
_update_step_status(wf, pos, status) == [wf EXCEPT !.steps[pos].status = status]

\* the heading line left out of the compiled text
RECURSIVE _compile_results_NoHeading(_)
_compile_results_NoHeading(steps) ==
    IF steps = <<>> THEN <<>>
    ELSE (IF Truthy(Head(steps).output)
          THEN <<Head(steps).output, "\n\n">>
          ELSE <<>>) \o _compile_results_NoHeading(Tail(steps))

RECURSIVE _compile_results(_)
_compile_results(steps) ==
    IF steps = <<>> THEN <<>>
    ELSE (IF Truthy(Head(steps).output)
          THEN <<"## ", Head(steps).name, "\n\n", Head(steps).output, "\n\n">>
          ELSE <<>>) \o _compile_results(Tail(steps))

\* steps[i] of a Python list of length n, as a 1-based position; 0 = IndexError
PyIndex(n, i) ==
    IF i >= 0 THEN (IF i < n THEN i + 1 ELSE 0)
    ELSE (IF n + i >= 0 THEN n + i + 1 ELSE 0)

RetError(msg) == [kind |-> "error", error |-> msg]
RetRaised(exc) == [kind |-> "raised", exception |-> exc]
RetPaused(step) ==
    [kind |-> "paused_for_approval", current_step |-> step.step_index,
     step_name |-> step.name, output |-> step.output]
RetFailed(msg) == [kind |-> "failed", error |-> msg]
RetCompleted(text) == [kind |-> "completed", result |-> text]
\* the rejected result naming the first step whatever was asked
RetRejected_First(i) == [kind |-> "rejected", step_index |-> 0]

RetRejected(i) == [kind |-> "rejected", step_index |-> i]

\* execute_workflow up to its loop: PENDING becomes RUNNING
EnterExecute(wf) ==
    IF wf.status = PENDING THEN update_status(wf, RUNNING, NULL) ELSE wf

\* ------------------------------------------------------------------ Init
Init ==
    /\ db = NoWorkflow
    /\ mem = NoSession
    /\ pc = "idle"
    /\ ret = NoRet
    /\ chain = NoChain
    /\ clean = NoClean
    /\ limiter = NoLimiter
    /\ rival = NoRival

\* ---------------------------------------------------- plain CRUD requests
CreateWorkflow ==
    /\ pc = "idle"
    /\ UNCHANGED service
    /\ db = NoWorkflow
    /\ db' = NewWorkflow
    /\ ret' = NoRet
    /\ UNCHANGED <<mem, pc>>

AddStep(step_index, requires_approval) ==
    /\ pc = "idle"
    /\ UNCHANGED service
    /\ db /= NoWorkflow
    /\ Len(db.steps) < MaxSteps
    /\ db' = [db EXCEPT !.steps =
                InsertStep(@, NewStep(step_index, requires_approval))]
    /\ ret' = NoRet
    /\ UNCHANGED <<mem, pc>>

UpdateStatus(status, error_message) ==
    /\ pc = "idle"
    /\ UNCHANGED service
    /\ db /= NoWorkflow
    /\ db' = commit(db, db, update_status(db, status, error_message))
    /\ ret' = NoRet
    /\ UNCHANGED <<mem, pc>>

\* ------------------------------------------------------ execute_workflow
ExecuteWorkflow ==
    /\ pc = "idle"
    /\ UNCHANGED service
    /\ IF db = NoWorkflow
       THEN /\ ret' = RetError("Workflow not found")
            /\ UNCHANGED <<db, mem, pc>>
       ELSE /\ db' = commit(db, db, EnterExecute(db))
            /\ mem' = refresh(EnterExecute(db), db')
            /\ pc' = "loop"
            /\ ret' = NoRet

\* the loop left one step early
LoopCondition_OneShort(wf) == wf.current_step_index < Len(wf.steps) - 1

\* line 53: while workflow.current_step_index < len(workflow.steps)
LoopCondition(wf) == wf.current_step_index < Len(wf.steps)

CurrentStep == mem.steps[mem.current_step_index + 1]

AtGate ==
    /\ CurrentStep.requires_approval
    /\ CurrentStep.status = WAITING_APPROVAL

\* line 57-71: the step at the index is already waiting
PauseAtGate ==
    /\ pc = "loop"
    /\ UNCHANGED service
    /\ LoopCondition(mem)
    /\ AtGate
    /\ db' = commit(db, mem, update_status(mem, PAUSED, NULL))
    /\ ret' = RetPaused(CurrentStep)
    /\ mem' = NoSession
    /\ pc' = "idle"

\* line 75 and _execute_step line 199: the step is marked RUNNING and its
\* work is dispatched
StartStep ==
    /\ pc = "loop"
    /\ UNCHANGED service
    /\ LoopCondition(mem)
    /\ ~AtGate
    /\ mem' = _update_step_status(mem, mem.current_step_index + 1, RUNNING)
    /\ pc' = "executing"
    /\ UNCHANGED <<db, ret>>

\* what _execute_step hands back: {"success": True} after storing the output,
\* or {"error": text}
StepOutcomes ==
    [kind : {"success"}, text : Outputs] \cup [kind : {"error"}, text : ErrorTexts]

\* lines 77-104, after the step's work came back
FinishStep(outcome) ==
    /\ pc = "executing"
    /\ UNCHANGED service
    /\ LET pos == mem.current_step_index + 1
           m1 == IF outcome.kind = "success"
                 THEN [mem EXCEPT !.steps[pos].output = outcome.text]
                 ELSE mem
           step == m1.steps[pos]
       IN  IF outcome.kind = "error" /\ Truthy(outcome.text)
           THEN /\ db' = commit(db, mem, update_status(m1, FAILED, outcome.text))
                /\ ret' = RetFailed(outcome.text)
                /\ mem' = NoSession
                /\ pc' = "idle"
           ELSE IF step.requires_approval
           THEN /\ db' = commit(db, mem, update_status(
                            _update_step_status(m1, pos, WAITING_APPROVAL),
                            PAUSED, NULL))
                /\ ret' = RetPaused(step)
                /\ mem' = NoSession
                /\ pc' = "idle"
           ELSE LET m2 == advance_step(_update_step_status(m1, pos, COMPLETED))
                IN  /\ db' = commit(db, mem, m2)
                    /\ mem' = refresh(m2, db')
                    /\ pc' = "loop"
                    /\ UNCHANGED ret

\* lines 115-127: the loop is left, the result is compiled onto the session's
\* object after the last commit and the session is closed
CompleteWorkflow ==
    /\ pc = "loop"
    /\ UNCHANGED service
    /\ ~LoopCondition(mem)
    /\ LET m1 == update_status(mem, COMPLETED, NULL)
           final_result == _compile_results(m1.steps)
       IN  /\ db' = commit(db, mem, m1)
           /\ ret' = RetCompleted(final_result)
    /\ mem' = NoSession
    /\ pc' = "idle"

\* ----------------------------------------------------------- approve_step
\* step_index values of the requests: the positions, one past the end, the
\* last position counted from the end, and one before the start
StepIndexArgs == {0 - MaxSteps - 1, 0 - 1} \cup (0 .. MaxSteps)

\* the status check left out
NotWaiting_Unchecked(step) == FALSE

\* line 157
NotWaiting(step) == step.status /= WAITING_APPROVAL

ApproveStep(step_index, approved, feedback) ==
    /\ pc = "idle"
    /\ UNCHANGED service
    /\ IF db = NoWorkflow
       THEN /\ ret' = RetError("Workflow not found")
            /\ UNCHANGED <<db, mem, pc>>
       ELSE IF step_index >= Len(db.steps)
       THEN /\ ret' = RetError("Step not found")
            /\ UNCHANGED <<db, mem, pc>>
       ELSE IF PyIndex(Len(db.steps), step_index) = 0
       THEN /\ ret' = RetRaised("IndexError")
            /\ UNCHANGED <<db, mem, pc>>
       ELSE LET pos == PyIndex(Len(db.steps), step_index)
                m1 == IF Truthy(feedback)
                      THEN [db EXCEPT !.steps[pos].user_feedback = feedback]
                      ELSE db
            IN  IF NotWaiting(db.steps[pos])
                THEN /\ ret' = RetError("Step is not waiting for approval")
                     /\ UNCHANGED <<db, mem, pc>>
                ELSE IF approved
                THEN LET m2 == EnterExecute(advance_step(
                                     _update_step_status(
                                       _update_step_status(m1, pos, APPROVED),
                                       pos, COMPLETED)))
                     IN  /\ db' = commit(db, db, m2)
                         /\ mem' = refresh(m2, db')
                         /\ pc' = "loop"
                     /\ ret' = NoRet
                ELSE /\ db' = commit(db, db, update_status(
                                 _update_step_status(m1, pos, REJECTED),
                                 FAILED, "Step rejected by user"))
                     /\ ret' = RetRejected(step_index)
                     /\ UNCHANGED <<mem, pc>>

\* ------------------------------------------------------------------ Next
SuccessOutcomes(outputs) == [kind : {"success"}, text : outputs]
ErrorOutcomes(errors) == [kind : {"error"}, text : errors]

NextOver(outcomes, feedbacks) ==
    \/ CreateWorkflow
    \/ \E i \in 0..MaxIdx, ra \in BOOLEAN : AddStep(i, ra)
    \/ \E s \in WorkflowStatus, m \in StatusMessages : UpdateStatus(s, m)
    \/ ExecuteWorkflow
    \/ PauseAtGate
    \/ StartStep
    \/ \E o \in outcomes : FinishStep(o)
    \/ CompleteWorkflow
    \/ \E i \in StepIndexArgs, a \in BOOLEAN, f \in feedbacks : ApproveStep(i, a, f)

Next == NextOver(StepOutcomes, Feedbacks)

Spec == Init /\ [][Next]_vars

\* the same requests, approvals carrying no feedback
NextNoFeedback == NextOver(StepOutcomes, {NULL})

SpecNoFeedback == Init /\ [][NextNoFeedback]_vars

\* the same requests, the collaborators handing back non-empty texts only
NextText ==
    NextOver(SuccessOutcomes(Outputs \ {""}) \cup ErrorOutcomes(ErrorTexts \ {""}),
             Feedbacks)

SpecText == Init /\ [][NextText]_vars

\* the same requests, every step's work succeeding with a text
NextGate == NextOver(SuccessOutcomes({"text"}), Feedbacks)

SpecGate == Init /\ [][NextGate]_vars

\* create-workflow, add-step, execute_workflow and approve_step only: no
\* explicit status update
NextCalls ==
    \/ CreateWorkflow
    \/ \E i \in 0..MaxIdx, ra \in BOOLEAN : AddStep(i, ra)
    \/ ExecuteWorkflow
    \/ PauseAtGate
    \/ StartStep
    \/ \E o \in SuccessOutcomes({"text"}) \cup ErrorOutcomes({"boom"}) : FinishStep(o)
    \/ CompleteWorkflow
    \/ \E i \in StepIndexArgs, a \in BOOLEAN, f \in Feedbacks : ApproveStep(i, a, f)

SpecCalls == Init /\ [][NextCalls]_vars

\* ------------------------------------------- a cancellation during a call
\* api/v1/workflows.py update_workflow_status, served for another request and
\* hence with a session of its own, while execute_workflow is between steps
\* or waits for a step's work: the stored row is marked CANCELLED, the
\* session of the running call keeps what it loaded
CancelWhileRunning ==
    /\ pc \in {"loop", "executing"}
    /\ db.status /= CANCELLED
    /\ db' = commit(db, db, update_status(db, CANCELLED, NULL))
    /\ UNCHANGED <<mem, pc, ret, service>>

\* the requests of the clients, none of them made on a workflow that is
\* already cancelled, and the cancellation of a call in progress
NextCancel ==
    \/ /\ ~(pc = "idle" /\ db /= NoWorkflow /\ db.status = CANCELLED)
       /\ NextNoFeedback
    \/ CancelWhileRunning

SpecCancel == Init /\ [][NextCancel]_vars

\* ------------------------------------------------ two requests at a time
\* Each request has a session of its own (db/session.py get_session).  A
\* request gives way at its awaits of the database and of a step's work,
\* the points between the actions of this model, and the request of the
\* other client goes on.
Switch ==
    /\ pc /= "idle" \/ rival.pc /= "idle"
    /\ mem' = rival.mem
    /\ pc' = rival.pc
    /\ ret' = rival.ret
    /\ rival' = [mem |-> mem, pc |-> pc, ret |-> ret,
                 serving |-> 3 - rival.serving,
                 marked |-> rival.rival_marked, rival_marked |-> rival.marked]
    /\ UNCHANGED <<db, chain, clean, limiter>>

\* approve_step lines 148-158: the step the request names is found waiting
Accepts(step_index) ==
    /\ db /= NoWorkflow
    /\ step_index < Len(db.steps)
    /\ PyIndex(Len(db.steps), step_index) /= 0
    /\ ~NotWaiting(db.steps[PyIndex(Len(db.steps), step_index)])

\* approve_step(step_index, approved=True, feedback=None), lines 148-170, up
\* to the first await of advance_step: the workflow is loaded, the step is
\* found waiting and marked APPROVED and COMPLETED in the session
ApproveBegin(step_index) ==
    /\ pc = "idle"
    /\ Accepts(step_index)
    /\ LET pos == PyIndex(Len(db.steps), step_index)
       IN  /\ mem' = _update_step_status(
                         _update_step_status(db, pos, APPROVED), pos, COMPLETED)
           /\ rival' = [rival EXCEPT !.marked = pos]
    /\ pc' = "approving"
    /\ ret' = NoRet
    /\ UNCHANGED <<db, chain, clean, limiter>>

\* the rest of advance_step (workflow_repo.py lines 152-158: the index of the
\* session's object is raised, commit, refresh) and execute_workflow up to
\* its loop (lines 43-51)
ApproveAdvance ==
    /\ pc = "approving"
    /\ LET loaded == _update_step_status(mem, rival.marked, WAITING_APPROVAL)
           advanced == advance_step(mem)
           db1 == commit(db, loaded, advanced)
           mem1 == refresh(advanced, db1)
       IN  /\ db' = commit(db1, mem1, EnterExecute(mem1))
           /\ mem' = refresh(EnterExecute(mem1), db')
    /\ pc' = "loop"
    /\ rival' = [rival EXCEPT !.marked = 0]
    /\ UNCHANGED <<ret, chain, clean, limiter>>

\* The steps are added before the first call; the first client calls
\* execute_workflow and approve_step, the second approve_step only, each
\* with approved=True; the work of a step succeeds or fails.
NextRival ==
    \/ /\ pc = "idle" /\ rival.pc = "idle"
       /\ CreateWorkflow
    \/ /\ pc = "idle" /\ rival.pc = "idle"
       /\ db /= NoWorkflow /\ db.status = PENDING
       /\ \E i \in 0..MaxIdx, ra \in BOOLEAN : AddStep(i, ra)
    \/ /\ rival.serving = 1
       /\ ExecuteWorkflow
    \/ PauseAtGate
    \/ StartStep
    \/ \E o \in SuccessOutcomes({"text"}) \cup ErrorOutcomes({"boom"}) : FinishStep(o)
    \/ CompleteWorkflow
    \/ \E i \in StepIndexArgs : ~Accepts(i) /\ ApproveStep(i, TRUE, NULL)
    \/ \E i \in StepIndexArgs : ApproveBegin(i)
    \/ ApproveAdvance
    \/ Switch

SpecRival == Init /\ [][NextRival]_vars

\* ------------------------------------------------------------------ texts
\* A text (a Python str) is a sequence of runs [c |-> symbol, n |-> count]:
\* the symbol repeated count times, adjacent runs carrying different symbols.
\* A symbol is one character or one of the words the patterns of the
\* sanitizer look for; Width gives its number of characters.
BT == "<backtick>"   \* the backtick character
SP == " "
NL == "\n"
QUOTE == "\""
ANSWER_IS == "The answer is: "
GENERIC_RESPONSE == "Based on the analysis above, the answer has been determined."
None == "<None>"

Run(c, n) == [c |-> c, n |-> n]

Width(c) ==
    CASE c \in {"python", "return", "answer"} -> 6
      [] c = "HEROINE" -> 7
      [] c = ANSWER_IS -> 15
      [] c = GENERIC_RESPONSE -> 60
      [] OTHER -> 1

Min(S) == CHOOSE x \in S : \A y \in S : x <= y
Max(S) == CHOOSE x \in S : \A y \in S : x >= y

\* len(text)
RECURSIVE len(_)
len(t) == IF t = <<>> THEN 0 ELSE Head(t).n * Width(Head(t).c) + len(Tail(t))

\* a + b
Cat(a, b) ==
    IF a = <<>> THEN b
    ELSE IF b = <<>> THEN a
    ELSE IF a[Len(a)].c = b[1].c
    THEN SubSeq(a, 1, Len(a) - 1) \o <<Run(b[1].c, a[Len(a)].n + b[1].n)>> \o Tail(b)
    ELSE a \o b

\* text[:k]; the cut falls inside a run of one-character symbols in every
\* text of this model
RECURSIVE Take(_, _)
Take(t, k) ==
    IF t = <<>> \/ k <= 0 THEN <<>>
    ELSE LET r == Head(t)
             w == Width(r.c)
         IN  IF r.n * w <= k THEN Cat(<<r>>, Take(Tail(t), k - r.n * w))
             ELSE IF k \div w > 0 THEN <<Run(r.c, k \div w)>>
             ELSE <<>>

IsSpace(c) == c \in {SP, NL}

RECURSIVE lstrip(_)
lstrip(t) == IF t /= <<>> /\ IsSpace(Head(t).c) THEN lstrip(Tail(t)) ELSE t

RECURSIVE rstrip(_)
rstrip(t) ==
    IF t /= <<>> /\ IsSpace(t[Len(t)].c) THEN rstrip(SubSeq(t, 1, Len(t) - 1)) ELSE t

\* text.strip()
strip(t) == rstrip(lstrip(t))

\* line 350: three backticks in a row occur in the text
HasFence(t) == \E i \in 1..Len(t) : t[i].c = BT /\ t[i].n >= 3

\* line 356, split on three backticks: a run of n backticks holds n \div 3 separators, found
\* from the left, and leaves n % 3 backticks at the start of the next part
RECURSIVE SplitFrom(_, _)
SplitFrom(t, part) ==
    IF t = <<>> THEN <<part>>
    ELSE LET r == Head(t)
         IN  IF r.c = BT /\ r.n >= 3
             THEN <<part>> \o [i \in 1..(r.n \div 3 - 1) |-> <<>>]
                    \o SplitFrom(Tail(t),
                                 IF r.n % 3 > 0 THEN <<Run(BT, r.n % 3)>> ELSE <<>>)
             ELSE SplitFrom(Tail(t), Append(part, r))

split(t) == SplitFrom(t, <<>>)

\* n backticks in front of a text, none when n = 0
Ticks(n, t) == IF n > 0 THEN Cat(<<Run(BT, n)>>, t) ELSE t

\* line 408, re.sub of fence, backtick-free text, fence by the empty text:
\* leftmost matches, not overlapping.  Six
\* backticks in a row are a match of their own; otherwise a match is the last
\* three backticks of a run, the backtick-free text after it and the first
\* three backticks of the next run.
RECURSIVE sub_fenced(_)
sub_fenced(t) ==
    IF t = <<>> THEN <<>>
    ELSE LET r == Head(t)
             rest == Tail(t)
             next == {j \in 1..Len(rest) : rest[j].c = BT}
         IN  IF r.c /= BT \/ r.n < 3 THEN Cat(<<r>>, sub_fenced(rest))
             ELSE IF r.n >= 6 THEN sub_fenced(Ticks(r.n - 6, rest))
             ELSE IF next /= {} /\ rest[Min(next)].n >= 3
             THEN Ticks(r.n - 3,
                        sub_fenced(Ticks(rest[Min(next)].n - 3,
                                         SubSeq(rest, Min(next) + 1, Len(rest)))))
             ELSE Cat(<<r>>, sub_fenced(rest))

\* ------------------------------------------------------- regular expressions
\* the position after the white space that starts at position j
SkipSpace(t, j) == Min({k \in j..(Len(t) + 1) : k > Len(t) \/ ~IsSpace(t[k].c)})

\* a quote, one or more characters that are no quotes, a quote, at position
\* k: the text between the opening quote and the next quote; None when the
\* pattern does not match there
Quoted(t, k) ==
    LET closing == {q \in (k + 1)..Len(t) : t[q].c = QUOTE}
    IN  IF k <= Len(t) /\ t[k].c = QUOTE /\ t[k].n = 1 /\ closing /= {}
        THEN SubSeq(t, k + 1, Min(closing) - 1)
        ELSE None

\* the group of the leftmost match among the positions, None without a match
FirstGroup(group) ==
    LET hits == {i \in DOMAIN group : group[i] /= None}
    IN  IF hits = {} THEN None ELSE group[Min(hits)]

\* line 229: return, white space, a quoted group
return_match(code) ==
    LET Group(i) ==
            IF code[i].c = "return" /\ SkipSpace(code, i + 1) > i + 1
            THEN Quoted(code, SkipSpace(code, i + 1))
            ELSE None
    IN  FirstGroup([i \in 1..Len(code) |-> Group(i)])

\* optional white space, =, optional white space, a quoted group, after the
\* variable name at position i
Assigned(code, i) ==
    LET j == SkipSpace(code, i + 1)
    IN  IF j <= Len(code) /\ code[j].c = "=" /\ code[j].n = 1
        THEN Quoted(code, SkipSpace(code, j + 1))
        ELSE None

\* line 381: a variable named word, answer, result or solution is assigned
\* a quoted group
answer_match(code) ==
    LET Group(i) == IF code[i].c = "answer" THEN Assigned(code, i) ELSE None
    IN  FirstGroup([i \in 1..Len(code) |-> Group(i)])

\* line 251: the same assignment with re.MULTILINE, the name starting the
\* text or a line
var_match(code) ==
    LET Group(i) ==
            IF /\ code[i].c = "answer" /\ code[i].n = 1
               /\ (i = 1 \/ code[i - 1].c = NL)
            THEN Assigned(code, i)
            ELSE None
    IN  FirstGroup([i \in 1..Len(code) |-> Group(i)])

\* lines 262 and 392: three quotes, as few characters as possible, three
\* quotes.  The match opens with the first three quotes of the first run of
\* three or more; it closes in what is left of that run when three or more
\* are left, and else with the first three quotes of the next such run
docstring_match(code) ==
    LET triples == {i \in 1..Len(code) : code[i].c = QUOTE /\ code[i].n >= 3}
        opening == Min(triples)
        left == code[opening].n - 3
        closing == Min(triples \ {opening})
    IN  IF triples = {} THEN None
        ELSE IF left >= 3 THEN <<>>
        ELSE IF triples = {opening} THEN None
        ELSE Cat(IF left > 0 THEN <<Run(QUOTE, left)>> ELSE <<>>,
                 SubSeq(code, opening + 1, closing - 1))

\* the words the docstring of pattern 4 is searched for
HasKeyword(t) ==
    \E i \in 1..Len(t) : t[i].c \in {"answer", ANSWER_IS, GENERIC_RESPONSE}

\* line 226: the language identifier that starts the block is removed with
\* the white space after it, up to the last newline of that white space
strip_language(code) ==
    LET j == SkipSpace(code, 2)
        newlines == {k \in 2..(j - 1) : code[k].c = NL}
    IN  IF code /= <<>> /\ code[1] = Run("python", 1) /\ newlines /= {}
        THEN SubSeq(code, Max(newlines) + 1, Len(code))
        ELSE code

\* ----------------------------------------------------------- OptiLLMService
BEFORE_MIN == 50       \* line 360
DOCSTRING_MIN == 30    \* line 395
BETWEEN_MIN == 30      \* line 403
CLEANED_MIN == 20      \* line 410
MAX_RESPONSE == 2000   \* line 422

\* lines 223-282.  The print patterns (2) and the comment pattern (5) need
\* a print call and a # comment, which no text of this model carries.
_extract_answer_from_code(code_block) ==
    LET code == strip_language(code_block)
    IN  IF return_match(code) /= None THEN Cat(<<Run(ANSWER_IS, 1)>>, return_match(code))
        ELSE IF var_match(code) /= None THEN Cat(<<Run(ANSWER_IS, 1)>>, var_match(code))
        ELSE IF docstring_match(code) /= None /\ HasKeyword(strip(docstring_match(code)))
        THEN strip(docstring_match(code))
        ELSE None

\* any docstring taken, whatever its length
ExtractGeneric_AnyDocstring(code_block) ==
    IF answer_match(code_block) /= None
    THEN Cat(<<Run(ANSWER_IS, 1)>>, answer_match(code_block))
    ELSE IF docstring_match(code_block) /= None
    THEN strip(docstring_match(code_block))
    ELSE None

\* lines 377-397, for one fenced block
ExtractGeneric(code_block) ==
    IF answer_match(code_block) /= None
    THEN Cat(<<Run(ANSWER_IS, 1)>>, answer_match(code_block))
    ELSE IF docstring_match(code_block) /= None
            /\ len(strip(docstring_match(code_block))) > DOCSTRING_MIN
    THEN strip(docstring_match(code_block))
    ELSE None

\* the cut left out
Truncate_Whole(response) == Cat(response, <<Run(".", 3)>>)

\* line 423: response[:2000] followed by three dots
Truncate(response) == Cat(Take(response, MAX_RESPONSE), <<Run(".", 3)>>)

\* lines 346-425; positions 1, 3, .. of the Python list parts are the
\* positions 2, 4, .. of the sequence
_clean_response_for_chaining(response, provider, technique) ==
    IF HasFence(response)
    THEN LET parts == split(response)
             before_code == strip(parts[1])
             blocks == {i \in 2..Len(parts) : i % 2 = 0}
             extracted == {i \in blocks : _extract_answer_from_code(parts[i]) /= None}
             generic == {i \in blocks : ExtractGeneric(parts[i]) /= None}
             between == {i \in blocks : /\ i + 1 <= Len(parts)
                                        /\ len(strip(parts[i + 1])) > BETWEEN_MIN}
             cleaned == strip(sub_fenced(response))
         IN  IF Len(parts) > 1 /\ len(before_code) > BEFORE_MIN THEN before_code
             ELSE IF Len(parts) > 1 /\ technique = "plansearch" /\ extracted /= {}
             THEN _extract_answer_from_code(parts[Min(extracted)])
             ELSE IF Len(parts) > 1 /\ generic /= {}
             THEN ExtractGeneric(parts[Min(generic)])
             ELSE IF Len(parts) > 1 /\ between /= {}
             THEN strip(parts[Min(between) + 1])
             ELSE IF len(cleaned) > CLEANED_MIN THEN cleaned
             ELSE <<Run(GENERIC_RESPONSE, 1)>>
    ELSE IF len(response) > MAX_RESPONSE THEN Truncate(response)
    ELSE response

\* ------------------------------------------------- the sanitizer, applied
MaxPieces == 3         \* pieces a technique output is put together from

Fence == <<Run(BT, 3)>>
ReturnBlock ==
    <<Run("python", 1), Run(NL, 1), Run("return", 1), Run(SP, 1), Run(QUOTE, 1),
      Run("HEROINE", 1), Run(QUOTE, 1), Run(NL, 1)>>
Assignment ==
    <<Run("answer", 1), Run(SP, 1), Run("=", 1), Run(SP, 1), Run(QUOTE, 1),
      Run("HEROINE", 1), Run(QUOTE, 1)>>

ShortDocstring == <<Run(QUOTE, 3), Run("answer", 1), Run(QUOTE, 3)>>
LongDocstring == <<Run(QUOTE, 3), Run("a", 31), Run(QUOTE, 3)>>

\* a fence, one backtick, the two kinds of code, a docstring with a keyword
\* and one over the length asked of a docstring, a blank, and plain text just
\* over each length the sanitizer compares with and at the longest it passes
Pieces ==
    {Fence, <<Run(BT, 1)>>, ReturnBlock, Assignment, ShortDocstring, LongDocstring,
     <<Run(SP, 1)>>,
     <<Run("a", 21)>>, <<Run("a", 31)>>, <<Run("a", 51)>>, <<Run("a", 2000)>>}

RECURSIVE Texts(_)
Texts(n) ==
    IF n = 0 THEN {<<>>}
    ELSE Texts(n - 1) \cup {Cat(t, p) : t \in Texts(n - 1), p \in Pieces}

Providers == {"google", "openai"}
Techniques == {"plansearch", "bon"}

InitClean ==
    /\ db = NoWorkflow
    /\ mem = NoSession
    /\ pc = "idle"
    /\ ret = NoRet
    /\ chain = NoChain
    /\ limiter = NoLimiter
    /\ rival = NoRival
    /\ \E t \in Texts(MaxPieces), p \in Providers, q \in Techniques :
          clean = [stage |-> "raw", response |-> t, provider |-> p, technique |-> q]

\* the raw output of a technique is cleaned
Clean ==
    /\ clean.stage = "raw"
    /\ clean' = [stage |-> "once", response |-> clean.response,
                 provider |-> clean.provider, technique |-> clean.technique,
                 once |-> _clean_response_for_chaining(
                              clean.response, clean.provider, clean.technique)]
    /\ UNCHANGED <<db, mem, pc, ret, chain, limiter, rival>>

\* the cleaned text is cleaned again
CleanAgain ==
    /\ clean.stage = "once"
    /\ clean' = [stage |-> "twice", response |-> clean.response,
                 provider |-> clean.provider, technique |-> clean.technique,
                 once |-> clean.once,
                 twice |-> _clean_response_for_chaining(
                               clean.once, clean.provider, clean.technique)]
    /\ UNCHANGED <<db, mem, pc, ret, chain, limiter, rival>>

NextClean == Clean \/ CleanAgain

SpecClean == InitClean /\ [][NextClean]_vars

\* -------------------------------------------------------- apply_techniques
MaxChain == 2          \* techniques in the list of one call
MaxMessages == 2       \* messages of one call

MAX_RETRIES == 3       \* line 493
BACKOFF_BASE == 5      \* line 531

\* names a caller can put in the list: rstar is no key of TECHNIQUES
TechniqueNames == Techniques \cup {"rstar"}
\* lines 174-186: the providers _create_client has a client for, and the
\* providers of the calls of this model, mistral being unsupported
SupportedProviders == {"openai", "anthropic", "google"}
ProviderNames == {"google", "mistral"}

Roles == {"system", "user", "assistant"}
Contents == {<<Run("a", 21)>>, <<Run("a", 31)>>}

\* raw outputs of a technique: plain text, the fenced return block and a
\* text over the length the sanitizer passes
Responses ==
    {<<Run("a", 51)>>, Cat(Cat(Fence, ReturnBlock), Fence), <<Run("a", 2021)>>}

\* line 540: the status_code of an error that carries none
NO_STATUS == 0

\* status_code of an APIError
StatusCodes == {NO_STATUS, 400, 404, 429, 500, 503}

\* what one invocation of a technique does: it returns a text, or raises
\* RateLimitError, or raises another APIError
Success(text) == [kind |-> "success", text |-> text]
RateLimited == [kind |-> "RateLimitError"]
Failed(status_code) == [kind |-> "APIError", status_code |-> status_code]
Results ==
    {Success(t) : t \in Responses} \cup {RateLimited}
        \cup {Failed(s) : s \in StatusCodes}

SeqsUpTo(S, n) == UNION {[1..k -> S] : k \in 0..n}

\* the arguments of the calls
MessageLists == SeqsUpTo([role : Roles, content : Contents], MaxMessages)
TechniqueLists == SeqsUpTo(TechniqueNames, MaxChain)

\* the user message read first instead of last
RECURSIVE _parse_messages_FirstUser(_)
_parse_messages_FirstUser(messages) ==
    IF messages = <<>> THEN [system_prompt |-> <<>>, initial_query |-> <<>>]
    ELSE LET msg == Head(messages)
             later == _parse_messages_FirstUser(Tail(messages))
         IN  IF msg.role = "user" THEN [later EXCEPT !.initial_query = msg.content]
             ELSE IF msg.role = "system" /\ later.system_prompt = <<>>
             THEN [later EXCEPT !.system_prompt = msg.content]
             ELSE later

\* lines 196-205: each system message overwrites system_prompt, each user
\* message overwrites initial_query
RECURSIVE _parse_messages(_)
_parse_messages(messages) ==
    IF messages = <<>> THEN [system_prompt |-> <<>>, initial_query |-> <<>>]
    ELSE LET msg == messages[Len(messages)]
             before == _parse_messages(SubSeq(messages, 1, Len(messages) - 1))
         IN  IF msg.role = "system" THEN [before EXCEPT !.system_prompt = msg.content]
             ELSE IF msg.role = "user" THEN [before EXCEPT !.initial_query = msg.content]
             ELSE before

Returned_(text) == [kind |-> "returned", text |-> text]
Raised(exception, status_code) ==
    [kind |-> "raised", exception |-> exception, status_code |-> status_code]

\* every provider error answered with 502
HTTPStatus_BadGateway(status_code) == 502

\* lines 540-588: the status of the HTTPException raised for an APIError
HTTPStatus(status_code) ==
    IF status_code = 400 THEN 400
    ELSE IF status_code = 429 THEN 429
    ELSE 502

\* line 427: a call arrives
ApplyTechniques(provider, messages, techniques) ==
    /\ chain = NoChain
    /\ UNCHANGED <<db, mem, pc, ret, clean, limiter, rival>>
    /\ chain' = [active |-> TRUE, phase |-> "start", provider |-> provider,
                 messages |-> messages, techniques |-> techniques]

\* lines 451-476: the client is created, the messages are parsed and the
\* chain starts from the initial query; the messages are read no more once
\* there are techniques to apply
Begin ==
    /\ chain /= NoChain
    /\ chain.phase = "start"
    /\ UNCHANGED <<db, mem, pc, ret, clean, limiter, rival>>
    /\ LET parsed == _parse_messages(chain.messages)
           call == [active |-> TRUE, provider |-> chain.provider,
                    techniques |-> chain.techniques,
                    system_prompt |-> parsed.system_prompt,
                    initial_query |-> parsed.initial_query,
                    final_response |-> parsed.initial_query,
                    idx |-> 1, retry_count |-> 0, waits |-> 0,
                    calls |-> <<>>, sleeps |-> <<>>,
                    phase |-> "next", outcome |-> NoRet]
       IN  IF chain.provider \notin SupportedProviders
           THEN chain' = [call EXCEPT !.phase = "done",
                                      !.outcome = Raised("ValueError", NO_STATUS)]
           ELSE IF chain.techniques = <<>>
           THEN chain' = [call EXCEPT !.phase = "direct"]
           ELSE chain' = call

\* lines 462-468: no technique, one completion with the messages as they are;
\* its errors are not caught
DirectCall(result) ==
    /\ chain /= NoChain
    /\ chain.phase = "direct"
    /\ UNCHANGED <<db, mem, pc, ret, clean, limiter, rival>>
    /\ chain' = [chain EXCEPT
          !.waits = @ + 1,
          !.phase = "done",
          !.outcome = IF result.kind = "success" THEN Returned_(result.text)
                      ELSE IF result.kind = "RateLimitError"
                      THEN Raised("RateLimitError", 429)
                      ELSE Raised("APIError", result.status_code)]

\* lines 477-494: the next technique is looked up and the limiter consulted,
\* or, after the last one, line 591 returns
NextTechnique ==
    /\ chain /= NoChain
    /\ chain.phase = "next"
    /\ UNCHANGED <<db, mem, pc, ret, clean, limiter, rival>>
    /\ IF chain.idx > Len(chain.techniques)
       THEN chain' = [chain EXCEPT !.phase = "done",
                                   !.outcome = Returned_(chain.final_response)]
       ELSE IF chain.techniques[chain.idx] \notin Techniques
       THEN chain' = [chain EXCEPT !.phase = "done",
                                   !.outcome = Raised("ValueError", NO_STATUS)]
       ELSE chain' = [chain EXCEPT !.waits = @ + 1,
                                   !.retry_count = 0,
                                   !.phase = "call"]

\* the retry loop giving each technique a fourth attempt
Invoke_FourAttempts(result) ==
    /\ chain /= NoChain
    /\ chain.phase = "call"
    /\ chain.retry_count < MAX_RETRIES + 1
    /\ UNCHANGED <<db, mem, pc, ret, clean, limiter, rival>>
    /\ LET technique == chain.techniques[chain.idx]
           invoked == [chain EXCEPT !.calls = Append(@,
                          [technique |-> technique,
                           system_prompt |-> chain.system_prompt,
                           query |-> chain.final_response,
                           result |-> result])]
       IN  IF result.kind = "success"
           THEN chain' = [invoked EXCEPT
                    !.final_response = _clean_response_for_chaining(
                                           result.text, chain.provider, technique),
                    !.idx = @ + 1,
                    !.phase = "next"]
           ELSE IF result.kind = "RateLimitError"
           THEN IF chain.retry_count + 1 >= MAX_RETRIES + 1
                THEN chain' = [invoked EXCEPT
                         !.retry_count = @ + 1,
                         !.phase = "done",
                         !.outcome = Raised("HTTPException", 429)]
                ELSE chain' = [invoked EXCEPT
                         !.retry_count = @ + 1,
                         !.sleeps = Append(@, BACKOFF_BASE * 2 ^ chain.retry_count)]
           ELSE chain' = [invoked EXCEPT
                    !.phase = "done",
                    !.outcome = Raised("HTTPException", HTTPStatus(result.status_code))]

\* lines 496-588: one pass of the retry loop, the technique invoked with the
\* system prompt and the current text, and its result handled
Invoke(result) ==
    /\ chain /= NoChain
    /\ chain.phase = "call"
    /\ chain.retry_count < MAX_RETRIES
    /\ UNCHANGED <<db, mem, pc, ret, clean, limiter, rival>>
    /\ LET technique == chain.techniques[chain.idx]
           invoked == [chain EXCEPT !.calls = Append(@,
                          [technique |-> technique,
                           system_prompt |-> chain.system_prompt,
                           query |-> chain.final_response,
                           result |-> result])]
       IN  IF result.kind = "success"
           THEN chain' = [invoked EXCEPT
                    !.final_response = _clean_response_for_chaining(
                                           result.text, chain.provider, technique),
                    !.idx = @ + 1,
                    !.phase = "next"]
           ELSE IF result.kind = "RateLimitError"
           THEN IF chain.retry_count + 1 >= MAX_RETRIES
                THEN chain' = [invoked EXCEPT
                         !.retry_count = @ + 1,
                         !.phase = "done",
                         !.outcome = Raised("HTTPException", 429)]
                ELSE chain' = [invoked EXCEPT
                         !.retry_count = @ + 1,
                         !.sleeps = Append(@, BACKOFF_BASE * 2 ^ chain.retry_count)]
           ELSE chain' = [invoked EXCEPT
                    !.phase = "done",
                    !.outcome = Raised("HTTPException", HTTPStatus(result.status_code))]

InitChain ==
    /\ db = NoWorkflow
    /\ mem = NoSession
    /\ pc = "idle"
    /\ ret = NoRet
    /\ chain = NoChain
    /\ clean = NoClean
    /\ limiter = NoLimiter
    /\ rival = NoRival

NextChain ==
    \/ /\ chain = NoChain
       /\ \E p \in ProviderNames, m \in MessageLists, t \in TechniqueLists :
             ApplyTechniques(p, m, t)
    \/ Begin
    \/ \E r \in Results : DirectCall(r)
    \/ NextTechnique
    \/ \E r \in Results : Invoke(r)

SpecChain == InitChain /\ [][NextChain]_vars

\* the event loop resumes the coroutine of the call after each await: the
\* client set up, the limiter consulted, the technique run in its thread and
\* the backoff slept, as long as each of them comes back
FairChain ==
    /\ WF_vars(Begin)
    /\ WF_vars(\E r \in Results : DirectCall(r))
    /\ WF_vars(NextTechnique)
    /\ WF_vars(\E r \in Results : Invoke(r))

SpecChainLive == InitChain /\ [][NextChain]_vars /\ FairChain

\* -------------------------------------------------------------- RateLimiter
MaxCalls == 4          \* calls made through one limiter

\* Time is counted in ticks of half a second, the unit the delays of
\* min_delays are multiples of.
TICKS == 2             \* ticks in a second
MINUTE == 60           \* line 75: seconds of the window
MAXLEN == 50           \* line 42: request_times remembered
BUFFER == 1            \* line 91: seconds added to the throttle wait

\* providers of the limiters of the model: mistral has no entry of its own
LimiterProviders == {"google", "openai", "anthropic", "mistral"}

\* lines 45-49 and 85: requests per minute
limits(provider) ==
    CASE provider = "google" -> 15
      [] provider = "openai" -> 3
      [] provider = "anthropic" -> 50
      [] OTHER -> 60

\* lines 52-56 and 65: seconds between requests, in ticks (4.5 s, 20 s,
\* 1.5 s and the default 1.0 s)
min_delays(provider) ==
    CASE provider = "google" -> 9
      [] provider = "openai" -> 40
      [] provider = "anthropic" -> 3
      [] OTHER -> 2

\* ticks that pass between two calls, and ticks a sleep lasts beyond its
\* argument
Gaps == {0, 2, 50}
Overshoots == {0, 1}

\* no pacing at all
get_delay_Zero(l) == 0

\* lines 58-71
get_delay(l) ==
    IF l.request_times = <<>> THEN 0
    ELSE LET time_since_last == l.now - l.request_times[Len(l.request_times)]
             min_delay == min_delays(l.provider)
         IN  IF time_since_last < min_delay THEN min_delay - time_since_last ELSE 0

\* lines 73-76
get_requests_in_last_minute(l) ==
    LET cutoff == l.now - MINUTE * TICKS
    IN  Cardinality({i \in 1..Len(l.request_times) : l.request_times[i] > cutoff})

\* lines 78-94: whether to throttle, and for how long
should_throttle(l) ==
    IF get_requests_in_last_minute(l) >= limits(l.provider)
    THEN LET oldest == l.request_times[1]
             wait_time == MINUTE * TICKS - (l.now - oldest) + BUFFER * TICKS
         IN  [throttle |-> TRUE, wait |-> IF wait_time > 0 THEN wait_time ELSE 0]
    ELSE [throttle |-> FALSE, wait |-> 0]

\* a sleep that returns at once
sleep_Instant(l, ticks) == l

\* asyncio.sleep(seconds): the clock moves on by the time slept
sleep(l, ticks) == [l EXCEPT !.now = @ + ticks, !.slept = @ + ticks]

\* deque(maxlen=50).append
append(request_times, t) ==
    IF Len(request_times) = MAXLEN THEN Append(Tail(request_times), t)
    ELSE Append(request_times, t)

\* line 455: RateLimiter(provider)
NewLimiter(provider) ==
    /\ limiter = NoLimiter
    /\ limiter' = [provider |-> provider, request_times |-> <<>>, now |-> 0,
                   phase |-> "idle", arrived |-> 0, slept |-> 0, calls |-> 0]
    /\ UNCHANGED <<db, mem, pc, ret, chain, clean, rival>>

\* line 96: a call of wait_if_needed begins, some time after the one before
Arrive(gap) ==
    /\ limiter /= NoLimiter
    /\ limiter.phase = "idle"
    /\ limiter.calls < MaxCalls
    /\ limiter' = [limiter EXCEPT !.now = @ + gap, !.arrived = limiter.now + gap,
                                  !.slept = 0, !.calls = @ + 1,
                                  !.phase = "throttle"]
    /\ UNCHANGED <<db, mem, pc, ret, chain, clean, rival>>

\* lines 99-108
Throttle(over) ==
    /\ limiter /= NoLimiter
    /\ limiter.phase = "throttle"
    /\ LET st == should_throttle(limiter)
       IN  limiter' = IF st.throttle
                      THEN [sleep(limiter, st.wait + over) EXCEPT !.phase = "delay"]
                      ELSE [limiter EXCEPT !.phase = "delay"]
    /\ UNCHANGED <<db, mem, pc, ret, chain, clean, rival>>

\* lines 111-115
Delay(over) ==
    /\ limiter /= NoLimiter
    /\ limiter.phase = "delay"
    /\ LET delay == get_delay(limiter)
       IN  limiter' = IF delay > 0
                      THEN [sleep(limiter, delay + over) EXCEPT !.phase = "record"]
                      ELSE [limiter EXCEPT !.phase = "record"]
    /\ UNCHANGED <<db, mem, pc, ret, chain, clean, rival>>

\* line 118
Record ==
    /\ limiter /= NoLimiter
    /\ limiter.phase = "record"
    /\ limiter' = [limiter EXCEPT !.request_times = append(@, limiter.now),
                                  !.phase = "idle"]
    /\ UNCHANGED <<db, mem, pc, ret, chain, clean, rival>>

InitLimiter ==
    /\ db = NoWorkflow
    /\ mem = NoSession
    /\ pc = "idle"
    /\ ret = NoRet
    /\ chain = NoChain
    /\ clean = NoClean
    /\ limiter = NoLimiter
    /\ rival = NoRival

NextLimiter ==
    \/ \E p \in LimiterProviders : NewLimiter(p)
    \/ \E g \in Gaps : Arrive(g)
    \/ \E o \in Overshoots : Throttle(o)
    \/ \E o \in Overshoots : Delay(o)
    \/ Record

SpecLimiter == InitLimiter /\ [][NextLimiter]_vars

\* ------------------------------------------------------ reading helpers
Idle == pc = "idle"
Exists == db /= NoWorkflow
Returned(kinds) == Idle /\ ret.kind \in kinds

\* a transition of execute_workflow or approve_step (the CRUD requests go
\* from idle to idle and clear ret)
OrchestratorStep == pc /= "idle" \/ pc' /= "idle" \/ ret' /= NoRet

\* a step's execution begins in this transition
Executes == pc = "loop" /\ pc' = "executing"

\* the step at the index of wf is an approval gate that is waiting
Gate(wf) ==
    /\ wf.current_step_index >= 0
    /\ wf.current_step_index < Len(wf.steps)
    /\ wf.steps[wf.current_step_index + 1].requires_approval
    /\ wf.steps[wf.current_step_index + 1].status = WAITING_APPROVAL

\* -------------------------------------------------------------------- C1
\* C1: after any sequence of requests issued one at a time, the workflow's
\* current_step_index is at least 0 and at most the number of its steps.
C1_IndexWithinSteps ==
    (Idle /\ Exists) =>
        /\ db.current_step_index >= 0
        /\ db.current_step_index <= Len(db.steps)

C3_GateHolds ==
    [][ /\ (ExecuteWorkflow /\ Exists /\ Gate(db)) =>
              /\ pc' = "loop"
              /\ mem'.steps = db.steps
              /\ mem'.current_step_index = db.current_step_index
              /\ db'.steps = db.steps
              /\ db'.current_step_index = db.current_step_index
        /\ (pc = "loop" /\ Gate(mem)) =>
              /\ ~Executes
              /\ pc' = "idle"
              /\ ret'.kind = "paused_for_approval"
              /\ db'.steps = mem.steps
              /\ db'.current_step_index = mem.current_step_index
              /\ db'.status = PAUSED
        /\ (Idle /\ Exists /\ Gate(db)
              /\ db'.current_step_index /= db.current_step_index) =>
              \E i \in StepIndexArgs, f \in Feedbacks :
                  /\ ApproveStep(i, TRUE, f)
                  /\ PyIndex(Len(db.steps), i) = db.current_step_index + 1
      ]_vars

\* the execute_workflow part of C3 alone
C3_ExecuteStopsAtGate ==
    [][ /\ (ExecuteWorkflow /\ Exists /\ Gate(db)) =>
              /\ pc' = "loop"
              /\ mem'.steps = db.steps
              /\ mem'.current_step_index = db.current_step_index
        /\ (pc = "loop" /\ Gate(mem)) =>
              /\ ~Executes
              /\ ret'.kind = "paused_for_approval"
              /\ db'.steps = mem.steps
              /\ db'.current_step_index = mem.current_step_index
              /\ db'.status = PAUSED
      ]_vars

\* -------------------------------------------------------------------- C4
\* a step that was executed never returns to PENDING (StartStep marks it
\* RUNNING and no assignment of the source writes PENDING again)
WasExecuted(step) == step.status /= PENDING

\* C4: steps are executed in strictly ascending step_index order (no step
\* index is executed twice or after a larger one), and no step is executed
\* before every earlier step that requires approval has reached COMPLETED.
\* Stated for workflows whose steps carry distinct step_index values.
C4_AscendingAndApproved ==
    [][ ( /\ Executes
          /\ \A j, k \in 1..Len(mem.steps) :
                j /= k => mem.steps[j].step_index /= mem.steps[k].step_index ) =>
            \A k \in 1..Len(mem.steps) :
                /\ WasExecuted(mem.steps[k]) =>
                       mem.steps[k].step_index < CurrentStep.step_index
                /\ (mem.steps[k].step_index < CurrentStep.step_index
                      /\ mem.steps[k].requires_approval) =>
                       mem.steps[k].status = COMPLETED
      ]_vars

\* -------------------------------------------------------------------- C5
\* the step the code selects for a step_index, when it selects one
Selects(wf, i) == i < Len(wf.steps) /\ PyIndex(Len(wf.steps), i) /= 0

\* C5: approve_step on a step whose status is not WAITING_APPROVAL returns
\* the structured error and changes nothing: the stored workflow and all its
\* steps (status, output, user_feedback) are as before, and no step runs.
C5_NotWaitingIsRejectedUnchanged ==
    [][ (Idle /\ Exists /\ OrchestratorStep) =>
          \A i \in StepIndexArgs :
            ( /\ Selects(db, i)
              /\ db.steps[PyIndex(Len(db.steps), i)].status /= WAITING_APPROVAL
              /\ \E a \in BOOLEAN, f \in Feedbacks : ApproveStep(i, a, f) ) =>
                /\ ret' = RetError("Step is not waiting for approval")
                /\ db' = db
                /\ pc' = "idle"
                /\ mem' = NoSession
      ]_vars

C5_Witness ==
    /\ Idle
    /\ ret = RetError("Step is not waiting for approval")
    /\ Exists
    /\ \E k \in 1..Len(db.steps) :
          /\ db.steps[k].status = COMPLETED
          /\ db.steps[k].output = "text"
          /\ db.steps[k].user_feedback = NULL

\* -------------------------------------------------------------------- C6
TerminalStatuses == {COMPLETED, FAILED, CANCELLED}

\* C6: once the stored status is COMPLETED, FAILED or CANCELLED, no
\* execute_workflow or approve_step call changes the status or the index or
\* executes a step.
C6_TerminalIsFinal ==
    [][ (Exists /\ db.status \in TerminalStatuses /\ OrchestratorStep) =>
            /\ db'.status = db.status
            /\ db'.current_step_index = db.current_step_index
            /\ ~Executes
      ]_vars

\* -------------------------------------------------------------------- C7
\* the workflow of the scenario: two steps, the first an approval gate
Scenario(wf) ==
    /\ Len(wf.steps) = 2
    /\ wf.steps[1].requires_approval
    /\ ~wf.steps[2].requires_approval

\* the compiled text has a heading for the name
HasHeading(text, name) ==
    \E k \in 1..(Len(text) - 1) : text[k] = "## " /\ text[k + 1] = name

\* C7, with Produced(output) saying which outputs of successful executions
\* the headings are promised for: execute_workflow runs step 0 and pauses
\* on it with step 1 untouched; approve_step(0, true) then runs step 1 with
\* no further call and returns completed, COMPLETED, index 2, a heading for
\* each of the two step names.
C7_Run(Produced(_)) ==
    /\ (pc = "executing" /\ Scenario(mem) /\ mem.current_step_index = 0
          /\ mem.steps[2].status = PENDING
          /\ \E o \in SuccessOutcomes(Outputs) : FinishStep(o)) =>
            /\ pc' = "idle"
            /\ ret'.kind = "paused_for_approval"
            /\ ret'.current_step = mem.steps[1].step_index
            /\ db'.steps[1].status = WAITING_APPROVAL
            /\ db'.status = PAUSED
            /\ db'.current_step_index = 0
            /\ db'.steps[2].status = PENDING
            /\ db'.steps[2].output = NULL
    /\ (Idle /\ Exists /\ Scenario(db) /\ db.current_step_index = 0
          /\ db.steps[1].status = WAITING_APPROVAL
          /\ db.steps[2].status = PENDING
          /\ \E f \in Feedbacks : ApproveStep(0, TRUE, f)) =>
            /\ pc' = "loop"
            /\ mem'.steps[1].status = COMPLETED
            /\ mem'.current_step_index = 1
    /\ (pc = "loop" /\ Scenario(mem) /\ mem.current_step_index = 1
          /\ mem.steps[2].status = PENDING) =>
            /\ Executes
            /\ mem'.steps[2].status = RUNNING
    /\ (pc = "executing" /\ Scenario(mem) /\ mem.current_step_index = 1
          /\ \E o \in SuccessOutcomes(Outputs) : FinishStep(o)) =>
            /\ pc' = "loop"
            /\ mem'.steps[2].status = COMPLETED
            /\ mem'.steps[2].output \in Outputs
            /\ mem'.current_step_index = 2
    /\ (pc = "loop" /\ Scenario(mem) /\ mem.current_step_index = 2) =>
            /\ pc' = "idle"
            /\ ret'.kind = "completed"
            /\ db'.status = COMPLETED
            /\ db'.current_step_index = 2
            /\ \A k \in 1..2 :
                  Produced(mem.steps[k].output) =>
                      HasHeading(ret'.result, mem.steps[k].name)

\* C7 as stated: every successful execution counts, whatever text it stored
StoredOutput(output) == output /= NULL

C7_ScenarioCompletes == [][C7_Run(StoredOutput)]_vars

\* C7 amended: the heading is promised for a step whose stored output is
\* not empty
C7_ScenarioCompletesNonEmpty == [][C7_Run(Truthy)]_vars

C7_Witness ==
    /\ Returned({"completed"})
    /\ Scenario(db)
    /\ db.current_step_index = 2
    /\ db.status = COMPLETED
    /\ \A k \in 1..2 : db.steps[k].status = COMPLETED /\ Truthy(db.steps[k].output)
    /\ db.steps[1].name /= db.steps[2].name
    /\ HasHeading(ret.result, db.steps[1].name)
    /\ HasHeading(ret.result, db.steps[2].name)

\* -------------------------------------------------------------------- C8
\* the stored result read as text: a NULL column reads as the empty text
StoredText(result) == IF result = NULL THEN <<>> ELSE result

\* C8: when execute_workflow has returned a completed result, the stored
\* workflow is COMPLETED and its stored result is the compiled text that the
\* result carries.
C8_ResultStored ==
    (Returned({"completed"}) /\ Exists) =>
        /\ db.status = COMPLETED
        /\ ret.result = _compile_results(db.steps)
        /\ StoredText(db.result) = ret.result

\* -------------------------------------------------------------------- C9
\* C9: when the execution of the step at the index reports an error (an
\* error result or an exception, whatever its message), execute_workflow
\* records the message on the workflow, sets it FAILED, returns failed with
\* the message, leaves the index unchanged and executes no later step.
C9_StepErrorFailsWorkflow ==
    [][ (pc = "executing" /\ \E o \in ErrorOutcomes(ErrorTexts) : FinishStep(o)) =>
          \E o \in ErrorOutcomes(ErrorTexts) :
              /\ FinishStep(o)
              /\ pc' = "idle"
              /\ ret' = RetFailed(o.text)
              /\ db'.status = FAILED
              /\ Truthy(o.text) => db'.error_message = o.text
              /\ db'.current_step_index = mem.current_step_index
      ]_vars

\* ------------------------------------------------------------------- C10
\* C10: approve_step returns a structured error, without raising and without
\* changing anything, when the workflow does not exist or step_index is
\* outside 0..len(steps)-1, negative values included.
C10_BadIndexIsStructuredError ==
    [][ (Idle /\ OrchestratorStep) =>
          \A i \in StepIndexArgs :
            ( /\ ~Exists \/ i < 0 \/ i >= Len(db.steps)
              /\ \E a \in BOOLEAN, f \in Feedbacks : ApproveStep(i, a, f) ) =>
                /\ ret'.kind = "error"
                /\ db' = db
                /\ pc' = "idle"
      ]_vars

\* ------------------------------------------------------------------- C11
\* the content of the last message of a role, the empty text without one
LastContent(messages, role) ==
    LET of_role == {i \in 1..Len(messages) : messages[i].role = role}
    IN  IF of_role = {} THEN <<>> ELSE messages[Max(of_role)].content

Done(c) == c /= NoChain /\ c.phase = "done"

\* a call over registered techniques
Registered(c) ==
    /\ c.techniques /= <<>>
    /\ \A i \in 1..Len(c.techniques) : c.techniques[i] \in Techniques

AllSucceeded(c) == \A i \in 1..Len(c.calls) : c.calls[i].result.kind = "success"

\* the sanitized output of invocation i
Sanitized(c, i) ==
    _clean_response_for_chaining(c.calls[i].result.text, c.provider, c.techniques[i])

\* C11: for a non-empty list of registered techniques whose invocations all
\* succeed, each technique is invoked exactly once, in the caller's order,
\* with the system prompt of the messages; the first receives the content of
\* the last user message, each later one the sanitized output of its
\* predecessor, and the call returns the sanitized output of the last.
C11_ChainInOrder ==
    [][ /\ (Begin /\ chain'.phase = "next") =>
              /\ chain'.system_prompt = LastContent(chain.messages, "system")
              /\ chain'.initial_query = LastContent(chain.messages, "user")
              /\ chain'.calls = <<>>
        /\ (Done(chain') /\ chain'.provider \in SupportedProviders
              /\ Registered(chain') /\ AllSucceeded(chain')) =>
              LET c == chain'
                  n == Len(c.techniques)
              IN  /\ Len(c.calls) = n
                  /\ \A i \in 1..n :
                        /\ c.calls[i].technique = c.techniques[i]
                        /\ c.calls[i].system_prompt = c.system_prompt
                        /\ c.calls[i].query =
                              IF i = 1 THEN c.initial_query ELSE Sanitized(c, i - 1)
                  /\ c.outcome = Returned_(Sanitized(c, n))
      ]_vars

C11_Witness ==
    /\ Done(chain)
    /\ chain.outcome.kind = "returned"
    /\ Len(chain.techniques) = MaxChain
    /\ Len(chain.calls) = MaxChain
    /\ chain.system_prompt /= <<>>
    /\ chain.initial_query /= <<>>
    /\ chain.initial_query /= chain.system_prompt
    /\ chain.calls[1].result.text /= chain.calls[2].query
    /\ chain.outcome.text /= chain.calls[MaxChain].result.text

\* ------------------------------------------------------------------- C12
\* the first k answers of the provider were rate-limit errors
RateLimitedCalls(c, k) ==
    /\ Len(c.calls) >= k
    /\ \A i \in 1..k : c.calls[i].result = RateLimited

\* C12: with the single technique bon, after three rate-limit errors the
\* provider is asked a fourth time: a success then is returned (sanitized),
\* a fourth rate-limit error makes the call raise the rate-limit-exceeded
\* error.
C12_ThreeRateLimitsThenSuccess ==
    (chain /= NoChain /\ chain.phase \in {"next", "call", "done"}
        /\ chain.techniques = <<"bon">> /\ chain.provider \in SupportedProviders
        /\ RateLimitedCalls(chain, 3)) =>
        /\ Done(chain) => Len(chain.calls) = 4
        /\ (Done(chain) /\ chain.calls[4].result.kind = "success") =>
              chain.outcome = Returned_(Sanitized(chain, 4))
        /\ (Done(chain) /\ chain.calls[4].result = RateLimited) =>
              chain.outcome = Raised("HTTPException", 429)

\* ------------------------------------------------------------------- C13
\* C13: a technique invocation that fails with a provider error of status
\* 400, or of status 500 and above, is the last invocation of the call: the
\* call has failed, with an HTTPException of status 400 in the first case and
\* 502 in the second, neither being the 429 of the rate-limit error.
C13_ProviderErrorFailsAtOnce ==
    (chain /= NoChain /\ chain.phase \in {"next", "call", "done"}) =>
        \A i \in 1..Len(chain.calls) :
            LET r == chain.calls[i].result
            IN  (r.kind = "APIError" /\ (r.status_code = 400 \/ r.status_code >= 500)) =>
                    /\ i = Len(chain.calls)
                    /\ Done(chain)
                    /\ chain.outcome =
                          Raised("HTTPException",
                                 IF r.status_code = 400 THEN 400 ELSE 502)
                    /\ chain.outcome.status_code /= 429

C13_Witness ==
    /\ Done(chain)
    /\ Len(chain.techniques) = MaxChain
    /\ Len(chain.calls) = 2
    /\ chain.calls[1].result = RateLimited
    /\ chain.calls[2].result = Failed(500)
    /\ chain.calls[2].technique = chain.techniques[1]
    /\ chain.outcome = Raised("HTTPException", 502)

\* ------------------------------------------------------------------- C14
Cleaned == clean.stage \in {"once", "twice"}

\* C14: on a text without three backticks in a row the sanitizer is
\* idempotent, for every provider and technique name: cleaning the cleaned
\* text gives the cleaned text, and a text of at most 2000 characters is
\* returned as it is.
C14_IdempotentOnUnfenced ==
    (Cleaned /\ ~HasFence(clean.response)) =>
        /\ len(clean.response) <= MAX_RESPONSE => clean.once = clean.response
        /\ clean.stage = "twice" => clean.twice = clean.once

C14_Witness ==
    /\ clean.stage = "twice"
    /\ ~HasFence(clean.response)
    /\ len(clean.response) > MAX_RESPONSE
    /\ clean.once /= clean.response
    /\ clean.twice = clean.once

\* ------------------------------------------------------------------- C15
\* C15: for every text that contains three backticks in a row, balanced or
\* not, with or without backticks in the fenced code, and for every provider
\* and technique name, the cleaned text contains no three backticks in a row.
C15_NoFenceReturned ==
    (Cleaned /\ HasFence(clean.response)) => ~HasFence(clean.once)

\* ------------------------------------------------------------------- C16
\* C16: one fenced python block whose code returns the string literal
\* HEROINE is cleaned to exactly The answer is: HEROINE, whichever technique
\* produced it.
C16_ReturnLiteralExtracted ==
    (Cleaned /\ clean.response = Cat(Cat(Fence, ReturnBlock), Fence)) =>
        clean.once = <<Run(ANSWER_IS, 1), Run("HEROINE", 1)>>

\* ------------------------------------------------------------------- C17
\* C17: for one limiter driven through wait_if_needed, two consecutive
\* recorded timestamps differ by at least the minimum delay D of the
\* provider; a call that arrived e < D after the last recorded call has slept
\* at least D - e when it is recorded.
C17_SpacingKept ==
    limiter /= NoLimiter =>
        LET times == limiter.request_times
            D == min_delays(limiter.provider)
            n == Len(times)
        IN  /\ \A k \in 1..(n - 1) : times[k + 1] - times[k] >= D
            /\ (limiter.phase = "idle" /\ n >= 2
                  /\ limiter.arrived - times[n - 1] < D) =>
                  limiter.slept >= D - (limiter.arrived - times[n - 1])

C17_Witness ==
    /\ limiter /= NoLimiter
    /\ limiter.phase = "idle"
    /\ Len(limiter.request_times) >= 2
    /\ LET times == limiter.request_times
           n == Len(times)
       IN  /\ limiter.arrived - times[n - 1] < min_delays(limiter.provider)
           /\ limiter.arrived - times[n - 1] > 0
           /\ limiter.slept > 0
           /\ times[n] - times[n - 1] = min_delays(limiter.provider)

\* ------------------------------------------------------------------ C18
\* C18: once the stored workflow is CANCELLED while a call of
\* execute_workflow is in progress (SpecCancel lets no call start on a
\* cancelled workflow, so the mark was set during the call), the call starts
\* no further step and no write of it replaces the CANCELLED status.
C18_CancelledStays ==
    [][(pc /= "idle" /\ db.status = CANCELLED)
          => (~Executes /\ db'.status = CANCELLED)]_vars

\* ------------------------------------------------------------------ C19
\* the step a request's step_index names is waiting at its approval gate
WaitingAt(i) ==
    /\ Idle /\ Exists
    /\ i < Len(db.steps)
    /\ PyIndex(Len(db.steps), i) /= 0
    /\ db.steps[PyIndex(Len(db.steps), i)].status = WAITING_APPROVAL

C20_RunningStepRunningWorkflow ==
    (pc = "executing" /\ \E k \in 1 .. Len(mem.steps) : mem.steps[k].status = RUNNING)
        => (mem.status = RUNNING /\ db.status = RUNNING)

\* ------------------------------------------------------------------ C21
\* C21: when execute_workflow or approve_step has returned, no stored step
\* has status RUNNING (a step whose work reported an error is FAILED, one
\* whose work succeeded is COMPLETED or WAITING_APPROVAL).
C21_NoStepLeftRunning ==
    (Exists /\ Returned({"paused_for_approval", "failed", "completed", "rejected"}))
        => \A k \in 1 .. Len(db.steps) : db.steps[k].status /= RUNNING

\* ------------------------------------------------------------------ C22
\* C22: in every stored state reached through execute_workflow and
\* approve_step calls, a step whose status is PENDING or RUNNING has no
\* output recorded.
C22_OutputOnlyAfterExecution ==
    Exists => \A k \in 1 .. Len(db.steps) :
                 db.steps[k].status \in {PENDING, RUNNING} => db.steps[k].output = NULL

\* ------------------------------------------------------------------ C23
\* what the priority list of the claim names, for a response with a fence.
\* The fenced blocks are the parts after the first, third, .. fence.
FencedBlocks(response) == {i \in 2..Len(split(response)) : i % 2 = 0}

\* (b) the answer extracted from a block as The answer is: ..; with
\* docstrings counted, also the docstring _extract_answer_from_code hands
\* back as it is
ExtractedAnswer(block, docstrings) ==
    LET e == _extract_answer_from_code(block)
    IN  IF e /= None /\ (docstrings \/ e[1].c = ANSWER_IS) THEN e ELSE None

\* (c) a variable-assignment answer, or a docstring longer than 30
AssignedOrDocstring(block) ==
    LET doc == docstring_match(block)
    IN  IF answer_match(block) /= None
        THEN Cat(<<Run(ANSWER_IS, 1)>>, answer_match(block))
        ELSE IF doc /= None /\ len(strip(doc)) > 30 THEN strip(doc)
        ELSE None

\* the first applicable result in the order (a) .. (e), else the placeholder
Priority(response, technique, docstrings) ==
    LET parts == split(response)
        before == strip(parts[1])
        b == {i \in FencedBlocks(response) :
                 ExtractedAnswer(parts[i], docstrings) /= None}
        c == {i \in FencedBlocks(response) : AssignedOrDocstring(parts[i]) /= None}
        d == {i \in FencedBlocks(response) :
                 i + 1 <= Len(parts) /\ len(strip(parts[i + 1])) > 30}
        removed == strip(sub_fenced(response))
    IN  IF len(before) > 50 THEN before
        ELSE IF technique = "plansearch" /\ b /= {}
        THEN ExtractedAnswer(parts[Min(b)], docstrings)
        ELSE IF c /= {} THEN AssignedOrDocstring(parts[Min(c)])
        ELSE IF d /= {} THEN strip(parts[Min(d) + 1])
        ELSE IF len(removed) > 20 THEN removed
        ELSE <<Run(GENERIC_RESPONSE, 1)>>

C25_PausedIffWaiting ==
    (Idle /\ Exists) =>
        LET at == db.current_step_index + 1
            waiting == {k \in 1..Len(db.steps) : db.steps[k].status = WAITING_APPROVAL}
        IN  /\ db.status = PAUSED <=> (at \in 1..Len(db.steps) /\ at \in waiting)
            /\ Cardinality(waiting) <= 1
            /\ \A k \in waiting : db.steps[k].requires_approval

\* ------------------------------------------------------------------ C26
\* C26: the current_step value of a paused_for_approval result, handed to
\* approve_step as step_index right after, selects the step that is waiting:
\* the approval is accepted (the step is COMPLETED and execution resumes) and
\* not answered with an error.
C26_PausedResultNamesGate ==
    [][(/\ Returned({"paused_for_approval"})
        /\ \E f \in Feedbacks : ApproveStep(ret.current_step, TRUE, f))
          => /\ pc' = "loop"
             /\ ret' = NoRet
             /\ \E k \in 1..Len(db.steps) :
                   /\ db.steps[k].status = WAITING_APPROVAL
                   /\ db'.steps[k].status = COMPLETED]_vars

\* ------------------------------------------------------------------ C27
\* C27: when two approve_step(approved=true) calls, or an execute_workflow
\* call and an approve_step call, run at the same time in separate requests,
\* current_step_index never exceeds the number of steps and no step is
\* executed twice: the two requests are never both executing the step at the
\* same list position.
C27_NoStepExecutedTwice ==
    /\ Exists => db.current_step_index <= Len(db.steps)
    /\ ~(/\ pc = "executing"
         /\ rival.pc = "executing"
         /\ rival.mem.current_step_index = mem.current_step_index)

\* ------------------------------------------------------------------ C28
\* C28: the text the sanitizer returns is never longer than 2003 characters
\* (2000 and the three dots), with or without code fences in the input.
C28_OutputBounded == Cleaned => len(clean.once) <= 2003

\* ------------------------------------------------------------------ C29
\* C29: after any sequence of add-step, execute_workflow and approve_step
\* requests made one at a time, every step at a list position below
\* current_step_index is COMPLETED and every step at a position above it is
\* PENDING without output.
C29_DoneBelowPendingAbove ==
    (Idle /\ Exists) =>
        \A k \in 1..Len(db.steps) :
            /\ k - 1 < db.current_step_index => db.steps[k].status = COMPLETED
            /\ k - 1 > db.current_step_index =>
                  /\ db.steps[k].status = PENDING
                  /\ db.steps[k].output = NULL

\* ------------------------------------------------------------------- C30
\* the place in the list of the technique of the k-th invocation: each
\* success moves the call to the next technique
Position(c, k) ==
    1 + Cardinality({j \in 1..(k - 1) : c.calls[j].result.kind = "success"})

\* the k-th invocation is this attempt of its technique
Attempt(c, k) ==
    Cardinality({j \in 1..k : Position(c, j) = Position(c, k)})

\* the invocations followed by a backoff: rate-limited, and not the third
Retried(c) ==
    {k \in 1..Len(c.calls) : c.calls[k].result = RateLimited /\ Attempt(c, k) < 3}

\* the techniques the call has reached so far
Reached(c) ==
    IF c.phase = "call" \/ (c.phase = "done" /\ c.calls /= <<>>
                              /\ c.calls[Len(c.calls)].result.kind /= "success")
    THEN c.idx
    ELSE c.idx - 1

C30_Bounded ==
    (chain /= NoChain /\ chain.phase \in {"next", "call", "done"}) =>
        LET n == Len(chain.techniques)
        IN  /\ Len(chain.calls) <= 3 * n
            /\ \A k \in 1..Len(chain.calls) :
                  /\ Position(chain, k) <= n
                  /\ Attempt(chain, k) <= 3
                  /\ chain.calls[k].technique = chain.techniques[Position(chain, k)]
                  /\ (chain.calls[k].result = RateLimited /\ k < Len(chain.calls)) =>
                        /\ chain.calls[k + 1].technique = chain.calls[k].technique
                        /\ chain.calls[k + 1].query = chain.calls[k].query
                        /\ chain.calls[k + 1].system_prompt = chain.calls[k].system_prompt
            /\ Len(chain.sleeps) = Cardinality(Retried(chain))
            /\ \A k \in Retried(chain) :
                  chain.sleeps[Cardinality({j \in Retried(chain) : j <= k})] =
                      IF Attempt(chain, k) = 1 THEN 5 ELSE 10
            /\ n > 0 => chain.waits = Reached(chain)

TypeOK ==
    /\ pc \in {"idle", "approving", "loop", "executing"}
    /\ (pc = "idle") <=> (mem = NoSession)
    /\ db /= NoWorkflow => /\ db.status \in WorkflowStatus
                           /\ Len(db.steps) <= MaxSteps
                           /\ \A i \in 1..Len(db.steps) : db.steps[i].status \in StepStatus
====
